---- MODULE Spec2Model ----
(***************************************************************************)
(* The answer alignment and scoring engine of the homework grading tool:   *)
(* HomeworkGradingSystem (automated_grading_system.py) and TemplateBuilder *)
(* (template_builder.py).                                                  *)
(*                                                                         *)
(* Representation.                                                         *)
(*  - A Python str is a sequence of characters; a character is a string    *)
(*    token: ASCII characters stand for themselves, a CJK character is     *)
(*    named by its pinyin ("tian" "kong" is the marker 填空), the glyphs × *)
(*    and ÷ are "mul_sign" and "div_sign".                                 *)
(*  - A Python float holding a decimal number is a record                  *)
(*    [mant, frac] = mant / 10^frac, kept exactly; the binary rounding of  *)
(*    a double is not represented (it can differ from the exact value only *)
(*    when a decimal difference equals the tolerance exactly).             *)
(*  - Points and scores are integers counted in half points (2.0 points is *)
(*    4), so that points * 0.5 is exact.                                   *)
(*  - A ratio of two floats is a reduced fraction [num, den].              *)
(*  - A dict is a sequence of its items in insertion order (keys unique).  *)
(***************************************************************************)
EXTENDS Integers, Sequences, FiniteSets, TLC

VARIABLES
    template,    \* HomeworkGradingSystem.template: None or the ordered questions
    files,       \* the files of the directory of OCR results
    op,          \* the operation called last ("none" before any call)
    args,        \* the arguments of that call
    frame,       \* the locals the call computed (answers, aligned_answers, ...)
    ret          \* how the call ended: a returned value or a raised exception

vars == <<template, files, op, args, frame, ret>>

None == [none |-> TRUE]

----------------------------------------------------------------------------
(* Characters and the str methods the code uses.                           *)

Digits == {"0", "1", "2", "3", "4", "5", "6", "7", "8", "9"}

LowerLetters == {"a", "b", "d", "e", "f", "n", "o", "r", "s", "u", "w", "x"}

UpperLetters == {"A", "B", "N", "X"}

Hanzi ==
    {"tian", "kong", "jie", "bi", "li", "ying", "yong", "ti", "tuo", "zhan",
     "ji", "chu", "lian", "xi", "ti2", "gao", "lie", "jia", "yi", "dai"}

\* \w of the re module: letters, digits, the underscore, CJK characters.
WordChars == Digits \cup LowerLetters \cup UpperLetters \cup Hanzi \cup {"_"}

\* \s of the re module.
Whitespace == {" "}

\* The symbols the cleaning whitelist keeps: . - + = : / ( ) [ ] { }
AnswerSymbols == {".", "-", "+", "=", ":", "/", "(", ")", "[", "]", "{", "}"}

\* str.lower() of one character.
LowerChar(c) ==
    CASE c = "A" -> "a"
      [] c = "B" -> "b"
      [] c = "N" -> "n"
      [] c = "X" -> "x"
      [] OTHER -> c

lower(text) == [i \in 1..Len(text) |-> LowerChar(text[i])]

IsSpace(c) == c \in Whitespace

RECURSIVE lstrip(_)
lstrip(text) ==
    IF text # <<>> /\ IsSpace(Head(text)) THEN lstrip(Tail(text)) ELSE text

RECURSIVE rstrip(_)
rstrip(text) ==
    IF text # <<>> /\ IsSpace(text[Len(text)])
    THEN rstrip(SubSeq(text, 1, Len(text) - 1))
    ELSE text

strip(text) == rstrip(lstrip(text))

\* sub in text
Contains(text, sub) ==
    \E i \in 1..(Len(text) - Len(sub) + 1) : SubSeq(text, i, i + Len(sub) - 1) = sub

isdigit(c) == c \in Digits

----------------------------------------------------------------------------
(* Numbers.                                                                *)

DigitVal(c) ==
    CASE c = "0" -> 0 [] c = "1" -> 1 [] c = "2" -> 2 [] c = "3" -> 3
      [] c = "4" -> 4 [] c = "5" -> 5 [] c = "6" -> 6 [] c = "7" -> 7
      [] c = "8" -> 8 [] c = "9" -> 9

RECURSIVE Pow10(_)
Pow10(n) == IF n = 0 THEN 1 ELSE 10 * Pow10(n - 1)

RECURSIVE DigitsValue(_)
DigitsValue(ds) ==
    IF ds = <<>> THEN 0
    ELSE 10 * DigitsValue(SubSeq(ds, 1, Len(ds) - 1)) + DigitVal(ds[Len(ds)])

\* A decimal without trailing zeros in its fraction: 7.0 and 7.00 are one float.
RECURSIVE Canon(_)
Canon(d) ==
    IF d.frac > 0 /\ d.mant % 10 = 0
    THEN Canon([mant |-> d.mant \div 10, frac |-> d.frac - 1])
    ELSE d

Dec(mant, frac) == Canon([mant |-> mant, frac |-> frac])

Abs(n) == IF n < 0 THEN -n ELSE n

Max2(a, b) == IF a >= b THEN a ELSE b

\* abs(a - b) and t as integers at the scale of the longest fraction.
Scaled(a, b, t) ==
    LET f == Max2(Max2(a.frac, b.frac), t.frac)
    IN [diff |-> Abs(a.mant * Pow10(f - a.frac) - b.mant * Pow10(f - b.frac)),
        tol |-> t.mant * Pow10(f - t.frac)]

\* abs(a - b) <= t
AbsDiffLeq(a, b, t) == LET s == Scaled(a, b, t) IN s.diff <= s.tol

\* The characters of the class [\d\.]
NumberChars == Digits \cup {"."}

\* The length of the longest prefix of text made of characters of cls.
RECURSIVE RunLen(_, _)
RunLen(text, cls) ==
    IF text # <<>> /\ Head(text) \in cls THEN 1 + RunLen(Tail(text), cls) ELSE 0

\* The maximal runs of characters of cls in text, left to right.
RECURSIVE FindallRuns(_, _)
FindallRuns(text, cls) ==
    IF text = <<>> THEN <<>>
    ELSE LET n == RunLen(text, cls)
         IN IF n = 0 THEN FindallRuns(Tail(text), cls)
            ELSE <<SubSeq(text, 1, n)>> \o FindallRuns(SubSeq(text, n + 1, Len(text)), cls)

\* re.findall(r'[\d\.]+', text)
findall_numbers(text) == FindallRuns(text, NumberChars)

CountOf(text, cls) == Cardinality({i \in 1..Len(text) : text[i] \in cls})

\* float(run) of a run of digits and dots succeeds for "12", "1.2", ".5", "7."
\* and raises ValueError for ".", "..", "1.2.3".
CanFloat(run) == CountOf(run, {"."}) <= 1 /\ CountOf(run, Digits) >= 1

float(run) ==
    LET ds == SelectSeq(run, isdigit)
        dot == CHOOSE i \in 1..(Len(run) + 1) :
                   /\ i <= Len(run) => run[i] = "."
                   /\ \A j \in 1..(i - 1) : run[j] # "."
    IN Dec(DigitsValue(ds), IF dot > Len(run) THEN 0 ELSE Len(run) - dot)

----------------------------------------------------------------------------
(* difflib.SequenceMatcher(None, a, b).ratio(), no junk.                   *)

\* The length of the common run of a from i and b from j.
RECURSIVE CommonRun(_, _, _, _)
CommonRun(a, b, i, j) ==
    IF i <= Len(a) /\ j <= Len(b) /\ a[i] = b[j]
    THEN 1 + CommonRun(a, b, i + 1, j + 1)
    ELSE 0

SetMax(S) == CHOOSE x \in S : \A y \in S : y <= x

SetMin(S) == CHOOSE x \in S : \A y \in S : x <= y

\* find_longest_match: the longest block, the one that starts earliest in a
\* and, of those, earliest in b.
find_longest_match(a, b) ==
    LET size == SetMax({CommonRun(a, b, i, j) : i \in 1..Len(a), j \in 1..Len(b)})
        besti == SetMin({i \in 1..Len(a) :
                            \E j \in 1..Len(b) : CommonRun(a, b, i, j) = size})
        bestj == SetMin({j \in 1..Len(b) : CommonRun(a, b, besti, j) = size})
    IN [i |-> besti, j |-> bestj, size |-> size]

\* get_matching_blocks: the total size of the blocks, found by splitting at the
\* longest match and matching the pieces to its left and to its right.
RECURSIVE matches(_, _)
matches(a, b) ==
    IF a = <<>> \/ b = <<>> THEN 0
    ELSE LET m == find_longest_match(a, b)
         IN IF m.size = 0 THEN 0
            ELSE m.size
                 + matches(SubSeq(a, 1, m.i - 1), SubSeq(b, 1, m.j - 1))
                 + matches(SubSeq(a, m.i + m.size, Len(a)),
                           SubSeq(b, m.j + m.size, Len(b)))

RECURSIVE GCD(_, _)
GCD(a, b) == IF b = 0 THEN a ELSE GCD(b, a % b)

\* a / b as a reduced fraction (b > 0).
Frac(a, b) == LET g == GCD(a, b) IN [num |-> a \div g, den |-> b \div g]

\* _calculate_ratio: 2.0 * matches / length, and 1.0 when length is 0.
ratio(a, b) ==
    LET length == Len(a) + Len(b)
    IN IF length = 0 THEN Frac(1, 1) ELSE Frac(2 * matches(a, b), length)

\* The similarity thresholds, in tenths.
FULL_SIMILARITY == 8

PARTIAL_SIMILARITY == 6

\* similarity >= tenths / 10
SimilarityGeq(similarity, tenths) == similarity.num * 10 >= tenths * similarity.den

----------------------------------------------------------------------------
(* The dataclasses.                                                        *)

\* Question.tolerance defaults to 0.1 and Question.partial_credit to True.
DefaultTolerance == Dec(1, 1)

Question(question_id, question_text, expected_answer, answer_type, points) ==
    [question_id |-> question_id, question_text |-> question_text,
     expected_answer |-> expected_answer, answer_type |-> answer_type,
     points |-> points, tolerance |-> DefaultTolerance, partial_credit |-> TRUE]

StudentAnswer(question_id, extracted_text, confidence_score, bounding_box) ==
    [question_id |-> question_id, extracted_text |-> extracted_text,
     confidence_score |-> confidence_score, bounding_box |-> bounding_box,
     is_handwritten |-> TRUE]

\* One feedback string: its fixed text and the values formatted into it.
Feedback(msg, values) == [msg |-> msg, values |-> values]

\* points * 0.5, exact: a score is counted in half points and every point value
\* is a whole number of points.
HalfOf(points) == points \div 2

----------------------------------------------------------------------------
(* Scoring one answer.                                                     *)

\* A comparison with < for <=.
WithinTolerance_Strict(student_value, expected_value, tolerance) ==
    LET s == Scaled(student_value, expected_value, tolerance) IN s.diff < s.tol

\* abs(student_value - expected_value) <= tolerance
WithinTolerance(student_value, expected_value, tolerance) ==
    AbsDiffLeq(student_value, expected_value, tolerance)

_grade_numeric_answer(student_answer, expected_question, result) ==
    LET student_numbers == findall_numbers(student_answer.extracted_text)
        expected_numbers == findall_numbers(expected_question.expected_answer)
        could_not_parse ==
            [result EXCEPT !.feedback =
                Append(@, Feedback("Could not parse numeric answer", <<>>))]
    IN IF student_numbers = <<>>
       THEN [result EXCEPT !.feedback =
                Append(@, Feedback("No numeric answer found", <<>>))]
       ELSE IF ~CanFloat(student_numbers[1]) THEN could_not_parse   \* ValueError
       ELSE IF expected_numbers = <<>> THEN could_not_parse         \* IndexError
       ELSE IF ~CanFloat(expected_numbers[1]) THEN could_not_parse  \* ValueError
       ELSE LET student_value == float(student_numbers[1])
                expected_value == float(expected_numbers[1])
            IN IF WithinTolerance(student_value, expected_value,
                                  expected_question.tolerance)
               THEN [result EXCEPT
                        !.is_correct = TRUE,
                        !.points_earned = expected_question.points,
                        !.feedback = Append(@, Feedback("Correct!", <<>>))]
               ELSE [result EXCEPT !.feedback =
                        Append(@, Feedback("Expected {}, got {}",
                                           <<expected_value, student_value>>))]

\* Tiers that award the half credit whatever partial_credit says.
SimilarityTiers_IgnoreFlag(similarity, expected_question, result, full, partial, none) ==
    IF SimilarityGeq(similarity, FULL_SIMILARITY)
    THEN [result EXCEPT
             !.is_correct = TRUE,
             !.points_earned = expected_question.points,
             !.feedback = @ \o full]
    ELSE IF SimilarityGeq(similarity, PARTIAL_SIMILARITY)
    THEN [result EXCEPT
             !.points_earned = HalfOf(expected_question.points),
             !.feedback = @ \o partial]
    ELSE [result EXCEPT !.feedback = @ \o none]

\* The three tiers shared by the formula, text and general graders.
SimilarityTiers(similarity, expected_question, result, full, partial, none) ==
    IF SimilarityGeq(similarity, FULL_SIMILARITY)
    THEN [result EXCEPT
             !.is_correct = TRUE,
             !.points_earned = expected_question.points,
             !.feedback = @ \o full]
    ELSE IF SimilarityGeq(similarity, PARTIAL_SIMILARITY)
            /\ expected_question.partial_credit
    THEN [result EXCEPT
             !.points_earned = HalfOf(expected_question.points),
             !.feedback = @ \o partial]
    ELSE [result EXCEPT !.feedback = @ \o none]

\* A normalization that lowercases and maps the glyphs but keeps the whitespace.
_normalize_formula_keep_spaces(formula) ==
    [i \in 1..Len(formula) |->
        CASE formula[i] = "mul_sign" -> "*"
          [] formula[i] = "div_sign" -> "/"
          [] OTHER -> LowerChar(formula[i])]

\* re.sub(r'\s+', '', formula.lower()), then × to * and ÷ to /
_normalize_formula(formula) ==
    LET squeezed == SelectSeq(lower(formula), LAMBDA c : ~IsSpace(c))
    IN [i \in 1..Len(squeezed) |->
           CASE squeezed[i] = "mul_sign" -> "*"
             [] squeezed[i] = "div_sign" -> "/"
             [] OTHER -> squeezed[i]]

FormulaSimilarity(student_answer, expected_question) ==
    ratio(_normalize_formula(student_answer.extracted_text),
          _normalize_formula(expected_question.expected_answer))

_grade_formula_answer(student_answer, expected_question, result) ==
    LET similarity == FormulaSimilarity(student_answer, expected_question)
    IN SimilarityTiers(similarity, expected_question, result,
           <<Feedback("Correct formula!", <<>>)>>,
           <<Feedback("Partially correct (similarity: {})", <<similarity>>)>>,
           <<Feedback("Formula doesn't match (similarity: {})", <<similarity>>)>>)

TextSimilarity(student_answer, expected_question) ==
    ratio(lower(student_answer.extracted_text),
          lower(expected_question.expected_answer))

_grade_text_answer(student_answer, expected_question, result) ==
    LET similarity == TextSimilarity(student_answer, expected_question)
    IN SimilarityTiers(similarity, expected_question, result,
           <<Feedback("Correct answer!", <<>>)>>,
           <<Feedback("Partially correct (similarity: {})", <<similarity>>)>>,
           <<Feedback("Answer doesn't match (similarity: {})", <<similarity>>)>>)

_grade_general_answer(student_answer, expected_question, result) ==
    LET similarity == ratio(student_answer.extracted_text,
                            expected_question.expected_answer)
        graded == SimilarityTiers(similarity, expected_question, result,
                                  <<>>, <<>>, <<>>)
    IN [graded EXCEPT !.feedback =
           Append(@, Feedback("Similarity score: {}", <<similarity>>))]

grade_answer(student_answer, expected_question) ==
    LET result == [question_id |-> expected_question.question_id,
                   expected_answer |-> expected_question.expected_answer,
                   student_answer |-> student_answer.extracted_text,
                   confidence_score |-> student_answer.confidence_score,
                   points_earned |-> 0,
                   max_points |-> expected_question.points,
                   is_correct |-> FALSE,
                   feedback |-> <<>>]
    IN CASE expected_question.answer_type = "numeric" ->
                _grade_numeric_answer(student_answer, expected_question, result)
         [] expected_question.answer_type = "formula" ->
                _grade_formula_answer(student_answer, expected_question, result)
         [] expected_question.answer_type = "text" ->
                _grade_text_answer(student_answer, expected_question, result)
         [] OTHER ->
                _grade_general_answer(student_answer, expected_question, result)

----------------------------------------------------------------------------
(* Exceptions and dicts.                                                   *)

Return(value) == [kind |-> "return", value |-> value]

Raise(exc) == [kind |-> "raise", exc |-> exc]

Returned(r) == r.kind = "return"

Raised(r) == r.kind = "raise"

\* A dict: the sequence of its items [key, value] in insertion order.
keys(d) == [i \in 1..Len(d) |-> d[i].key]

values(d) == [i \in 1..Len(d) |-> d[i].value]

HasKey(d, k) == \E i \in 1..Len(d) : d[i].key = k

Get(d, k) == d[CHOOSE i \in 1..Len(d) : d[i].key = k].value

Item(k, v) == [key |-> k, value |-> v]

\* d[k] = v: a new key goes to the end, an old key keeps its place.
SetItem(d, k, v) ==
    IF HasKey(d, k)
    THEN [i \in 1..Len(d) |-> IF d[i].key = k THEN Item(k, v) ELSE d[i]]
    ELSE Append(d, Item(k, v))

\* The dict of a sequence of Questions keyed by their ids.
RECURSIVE DictOf(_)
DictOf(questions) ==
    IF questions = <<>> THEN <<>>
    ELSE SetItem(DictOf(SubSeq(questions, 1, Len(questions) - 1)),
                 questions[Len(questions)].question_id,
                 questions[Len(questions)])

RECURSIVE SumSeq(_)
SumSeq(s) == IF s = <<>> THEN 0 ELSE Head(s) + SumSeq(Tail(s))

Min2(a, b) == IF a <= b THEN a ELSE b

----------------------------------------------------------------------------
(* The candidate filter.                                                   *)

\* re.sub(r'[^\w\s\.\-\+\=\:\/\(\)\[\]\{\}]', '', text).strip()
_clean_text(text) ==
    strip(SelectSeq(text,
                    LAMBDA c : c \in WordChars \cup Whitespace \cup AnswerSymbols))

\* 填空, 解比例, 应用题, 拓展题, 基础练习, 提高练习
question_indicators ==
    {<<"tian", "kong">>, <<"jie", "bi", "li">>, <<"ying", "yong", "ti">>,
     <<"tuo", "zhan", "ti">>, <<"ji", "chu", "lian", "xi">>,
     <<"ti2", "gao", "lian", "xi">>}

_is_question_text(text) ==
    \E indicator \in question_indicators : Contains(text, indicator)

\* The longest text the second prong of _looks_like_answer accepts.
SHORT_ANSWER_LEN == 10

\* The shortest cleaned text extract_answers_from_ocr keeps.
MIN_ANSWER_LEN == 2

\* The test with the length limit of the template builder's variant, 15.
_looks_like_answer_15(text) ==
    \/ text # <<>> /\ \A i \in 1..Len(text) : text[i] \in Digits \cup AnswerSymbols
    \/ Len(text) <= 15 /\ \E i \in 1..Len(text) : isdigit(text[i])

_looks_like_answer(text) ==
    \/ text # <<>> /\ \A i \in 1..Len(text) : text[i] \in Digits \cup AnswerSymbols
    \/ Len(text) <= SHORT_ANSWER_LEN /\ \E i \in 1..Len(text) : isdigit(text[i])

\* zip(texts, scores, boxes) with enumerate: as long as the shortest list.
Fragments(ocr_result) ==
    LET n == Min2(Len(ocr_result.rec_texts),
                  Min2(Len(ocr_result.rec_scores), Len(ocr_result.rec_boxes)))
    IN [k \in 1..n |-> [i |-> k - 1,
                        text |-> ocr_result.rec_texts[k],
                        score |-> ocr_result.rec_scores[k],
                        box |-> ocr_result.rec_boxes[k]]]

\* A filter whose skip test joins its two conditions with "and".
IsCandidate_And(cleaned_text) ==
    /\ ~(Len(cleaned_text) < MIN_ANSWER_LEN /\ _is_question_text(cleaned_text))
    /\ _looks_like_answer(cleaned_text)

IsCandidate(cleaned_text) ==
    /\ ~(Len(cleaned_text) < MIN_ANSWER_LEN \/ _is_question_text(cleaned_text))
    /\ _looks_like_answer(cleaned_text)

RECURSIVE CandidatesOf(_)
CandidatesOf(fragments) ==
    IF fragments = <<>> THEN <<>>
    ELSE LET f == Head(fragments)
             cleaned_text == _clean_text(f.text)
         IN (IF IsCandidate(cleaned_text)
             THEN <<StudentAnswer(<<"answer_", f.i>>, cleaned_text, f.score, f.box)>>
             ELSE <<>>)
            \o CandidatesOf(Tail(fragments))

extract_answers_from_ocr(ocr_result) == CandidatesOf(Fragments(ocr_result))

----------------------------------------------------------------------------
(* Alignment.                                                              *)

\* x.bounding_box[1] raises IndexError on a box of fewer than two numbers.
HasTop(answer) == Len(answer.bounding_box) >= 2

Top(answer) == answer.bounding_box[2]

\* The candidates left in extraction order.
sorted_by_top_unsorted(answers) == answers

\* sorted(answers, key=top) is stable: equal tops keep their order.
RECURSIVE sorted_by_top(_)
sorted_by_top(answers) ==
    IF answers = <<>> THEN <<>>
    ELSE LET last == answers[Len(answers)]
             rest == sorted_by_top(SubSeq(answers, 1, Len(answers) - 1))
             n == Cardinality({i \in 1..Len(rest) : Top(rest[i]) <= Top(last)})
         IN SubSeq(rest, 1, n) \o <<last>> \o SubSeq(rest, n + 1, Len(rest))

\* for i, answer in enumerate(sorted_answers): if i < len(question_ids): ...
RECURSIVE AlignLoop(_, _)
AlignLoop(sorted_answers, question_ids) ==
    IF sorted_answers = <<>> THEN <<>>
    ELSE LET n == Len(sorted_answers)
             before == AlignLoop(SubSeq(sorted_answers, 1, n - 1), question_ids)
         IN IF n - 1 < Len(question_ids)
            THEN SetItem(before, question_ids[n], sorted_answers[n])
            ELSE before

align_answers_with_questions(answers, template_dict) ==
    AlignLoop(sorted_by_top(answers), keys(template_dict))

----------------------------------------------------------------------------
(* Grading one homework.                                                   *)

\* self.template: None, or a dict of Questions.
NoTemplate == [is_none |-> TRUE, dict |-> <<>>]

Loaded(template_dict) == [is_none |-> FALSE, dict |-> template_dict]

\* not self.template: None and the empty dict are both falsy.
NotTemplate(self_template) == self_template.is_none \/ self_template.dict = <<>>

\* 'No answer found'
NoAnswerFound ==
    <<"N", "o", " ", "a", "n", "s", "w", "e", "r", " ", "f", "o", "u", "n", "d">>

NoAnswerResult(question_id, expected_question) ==
    [question_id |-> question_id,
     expected_answer |-> expected_question.expected_answer,
     student_answer |-> NoAnswerFound,
     confidence_score |-> 0,
     points_earned |-> 0,
     max_points |-> expected_question.points,
     is_correct |-> FALSE,
     feedback |-> <<Feedback("No answer detected", <<>>)>>]

\* A loop that emits a result only for the questions that have a candidate.
QuestionResults_SkipUnanswered(template_dict, aligned_answers) ==
    LET answered == SelectSeq(template_dict,
                              LAMBDA item : HasKey(aligned_answers, item.key))
    IN [k \in 1..Len(answered) |->
           grade_answer(Get(aligned_answers, answered[k].key), answered[k].value)]

\* The loop over self.template.items().
QuestionResults(template_dict, aligned_answers) ==
    [k \in 1..Len(template_dict) |->
        IF HasKey(aligned_answers, template_dict[k].key)
        THEN grade_answer(Get(aligned_answers, template_dict[k].key),
                          template_dict[k].value)
        ELSE NoAnswerResult(template_dict[k].key, template_dict[k].value)]

\* sum(q.points for q in self.template.values())
MaxScore(template_dict) ==
    SumSeq([k \in 1..Len(template_dict) |-> template_dict[k].value.points])

\* total_score = result['points_earned']: the last result only.
TotalScore_Assign(question_results) ==
    IF question_results = <<>> THEN 0
    ELSE question_results[Len(question_results)].points_earned

\* total_score += result['points_earned'], over the question results
TotalScore(question_results) ==
    SumSeq([k \in 1..Len(question_results) |-> question_results[k].points_earned])

\* total_score / max_score if max_score > 0 else 0.0
OverallAccuracy(total_score, max_score) ==
    IF max_score > 0 THEN Frac(total_score, max_score) ELSE Frac(0, 1)

\* The locals of grade_homework: none when the template check raises, answers
\* when the alignment raises, answers and aligned_answers otherwise.
GradeLocals(self_template, ocr_result) ==
    LET answers == extract_answers_from_ocr(ocr_result)
    IN IF NotTemplate(self_template) THEN <<>>
       ELSE IF \E i \in 1..Len(answers) : ~HasTop(answers[i])
       THEN [answers |-> answers]
       ELSE [answers |-> answers,
             aligned_answers |->
                 align_answers_with_questions(answers, self_template.dict)]

\* A grader that keeps its question_results list from one call to the next.
grade_homework_accumulating(self_template, student_id, ocr_result) ==
    IF NotTemplate(self_template) THEN Raise("ValueError")
    ELSE LET answers == extract_answers_from_ocr(ocr_result)
         IN IF \E i \in 1..Len(answers) : ~HasTop(answers[i])
            THEN Raise("IndexError")
            ELSE LET kept == IF op = "grade_homework" /\ Returned(ret)
                             THEN ret.value.question_results ELSE <<>>
                     question_results ==
                         kept \o QuestionResults(
                                     self_template.dict,
                                     align_answers_with_questions(answers,
                                                                  self_template.dict))
                     total_score == TotalScore(question_results)
                     max_score == MaxScore(self_template.dict)
                 IN Return([student_id |-> student_id,
                            total_score |-> total_score,
                            max_score |-> max_score,
                            question_results |-> question_results,
                            overall_accuracy |-> OverallAccuracy(total_score, max_score),
                            feedback |-> <<>>])

grade_homework(self_template, student_id, ocr_result) ==
    IF NotTemplate(self_template) THEN Raise("ValueError")
    ELSE LET answers == extract_answers_from_ocr(ocr_result)
         IN IF \E i \in 1..Len(answers) : ~HasTop(answers[i])
            THEN Raise("IndexError")
            ELSE LET aligned_answers ==
                         align_answers_with_questions(answers, self_template.dict)
                     question_results ==
                         QuestionResults(self_template.dict, aligned_answers)
                     total_score == TotalScore(question_results)
                     max_score == MaxScore(self_template.dict)
                     overall_accuracy == OverallAccuracy(total_score, max_score)
                     correct_count ==
                         Cardinality({k \in 1..Len(question_results) :
                                         question_results[k].is_correct})
                 IN Return([student_id |-> student_id,
                            total_score |-> total_score,
                            max_score |-> max_score,
                            question_results |-> question_results,
                            overall_accuracy |-> overall_accuracy,
                            feedback |->
                                <<Feedback("Score: {}/{} ({})",
                                           <<total_score, max_score, overall_accuracy>>),
                                  Feedback("Correct answers: {}/{}",
                                           <<correct_count, Len(question_results)>>)>>])

----------------------------------------------------------------------------
(* Grading a directory.                                                    *)

HasPrefix(text, prefix) ==
    Len(text) >= Len(prefix) /\ SubSeq(text, 1, Len(prefix)) = prefix

HasSuffix(text, suffix) ==
    Len(text) >= Len(suffix)
    /\ SubSeq(text, Len(text) - Len(suffix) + 1, Len(text)) = suffix

\* glob("hw_*_res.json"): the * matches any run of characters, also none.
GlobMatches(name) ==
    /\ HasPrefix(name, <<"h", "w", "_">>)
    /\ HasSuffix(name, <<"_", "r", "e", "s", ".", "j", "s", "o", "n">>)
    /\ Len(name) >= 12

\* "hw_1" in json_file.name
IsAnswerKeyName(name) == Contains(name, <<"h", "w", "_", "1">>)

\* Path.stem: the name without its last suffix.
stem(name) ==
    LET dots == {i \in 2..Len(name) : name[i] = "."}
    IN IF dots = {} THEN name ELSE SubSeq(name, 1, SetMax(dots) - 1)

\* text.replace(old, ""): every occurrence, left to right.
RECURSIVE Remove(_, _)
Remove(text, old) ==
    IF text = <<>> THEN <<>>
    ELSE IF HasPrefix(text, old) THEN Remove(SubSeq(text, Len(old) + 1, Len(text)), old)
    ELSE <<Head(text)>> \o Remove(Tail(text), old)

StudentId(name) == Remove(stem(name), <<"_", "r", "e", "s">>)

\* load_ocr_result: json.load raises on a file that holds no JSON.
load_ocr_result(file) ==
    IF file.readable THEN Return(file.ocr_result) ELSE Raise("JSONDecodeError")

\* One pass of the loop's body: the results after this file.
GradeFile(self_template, results, file) ==
    IF IsAnswerKeyName(file.name) THEN results
    ELSE LET loaded == load_ocr_result(file)
         IN IF Raised(loaded) THEN results
            ELSE LET graded == grade_homework(self_template, StudentId(file.name),
                                              loaded.value)
                 IN IF Raised(graded) THEN results
                    ELSE Append(results, graded.value)

\* logger.info(f"Grading {student_id}..."): the students whose files the loop
\* goes on to load and grade.
GradingLog(listing) ==
    LET attempted == SelectSeq(listing, LAMBDA f : ~IsAnswerKeyName(f.name))
    IN [i \in 1..Len(attempted) |-> StudentId(attempted[i].name)]

\* batch_grade over the files in the order glob yields them.
RECURSIVE batch_grade(_, _)
batch_grade(self_template, listing) ==
    IF listing = <<>> THEN <<>>
    ELSE GradeFile(self_template,
                   batch_grade(self_template, SubSeq(listing, 1, Len(listing) - 1)),
                   listing[Len(listing)])

----------------------------------------------------------------------------
(* The report.                                                             *)

AddFrac(a, b) == Frac(a.num * b.den + b.num * a.den, a.den * b.den)

RECURSIVE SumFrac(_)
SumFrac(s) == IF s = <<>> THEN Frac(0, 1) ELSE AddFrac(Head(s), SumFrac(Tail(s)))

\* np.mean of integers, and of fractions
Mean(s) == Frac(SumSeq(s), Len(s))

MeanFrac(s) == LET t == SumFrac(s) IN Frac(t.num, t.den * Len(s))

SeqRange(s) == {s[i] : i \in 1..Len(s)}

generate_report(results) ==
    IF results = <<>>
    THEN [summary |-> [total_students |-> 0,
                       average_score |-> Frac(0, 1),
                       average_accuracy |-> Frac(0, 1),
                       highest_score |-> 0,
                       lowest_score |-> 0,
                       max_score |-> 0],
          student_results |-> <<>>]
    ELSE LET scores == [i \in 1..Len(results) |-> results[i].total_score]
         IN [summary |->
                 [total_students |-> Len(results),
                  average_score |-> Mean(scores),
                  average_accuracy |->
                      MeanFrac([i \in 1..Len(results) |-> results[i].overall_accuracy]),
                  highest_score |-> SetMax(SeqRange(scores)),
                  lowest_score |-> SetMin(SeqRange(scores)),
                  max_score |-> results[1].max_score],
             student_results |->
                 [i \in 1..Len(results) |->
                     [student_id |-> results[i].student_id,
                      total_score |-> results[i].total_score,
                      max_score |-> results[i].max_score,
                      accuracy |-> results[i].overall_accuracy,
                      feedback |-> results[i].feedback,
                      question_details |-> results[i].question_results]]]

----------------------------------------------------------------------------
(* TemplateBuilder.                                                        *)

\* The methods class TemplateBuilder defines; self._is_question_text, which
\* extract_template_from_ocr and _fallback_answer_extraction call, is not one.
TemplateBuilderMethods ==
    {"__init__", "extract_template_from_ocr", "_clean_text", "_is_section_header",
     "_extract_section_name", "_extract_question_number", "_looks_like_answer",
     "_determine_answer_type", "_estimate_points", "_fallback_answer_extraction",
     "save_template"}

\* 基础练习, 提高练习, 拓展练习
section_indicators ==
    <<<<"ji", "chu", "lian", "xi">>, <<"ti2", "gao", "lian", "xi">>,
      <<"tuo", "zhan", "lian", "xi">>>>

_is_section_header(text) ==
    \E k \in 1..Len(section_indicators) : Contains(text, section_indicators[k])

_extract_section_name(text) ==
    section_indicators[SetMin({k \in 1..Len(section_indicators) :
                                  Contains(text, section_indicators[k])})]

\* The first pass: the section the cursor is left on (None when no header is seen).
RECURSIVE FirstPass(_)
FirstPass(fragments) ==
    IF fragments = <<>> THEN <<>>
    ELSE LET cleaned_text == _clean_text(fragments[Len(fragments)].text)
         IN IF _is_section_header(cleaned_text)
            THEN _extract_section_name(cleaned_text)
            ELSE FirstPass(SubSeq(fragments, 1, Len(fragments) - 1))

\* Point estimation that ignores the section: 3.0 for every question.
_estimate_points_flat(section, question) == 6

\* 2.0, 4.0 and 6.0 points for the three sections, 3.0 otherwise (in half points).
_estimate_points(section, question) ==
    IF section = section_indicators[1] THEN 4
    ELSE IF section = section_indicators[2] THEN 8
    ELSE IF section = section_indicators[3] THEN 12
    ELSE 6

\* The longest cleaned text the fallback looks at.
FALLBACK_MAX_LEN == 20

\* The fewest questions the second pass must find for its result to be kept.
MIN_TEMPLATE_SIZE == 3

\* _fallback_answer_extraction: a fragment longer than 20 is skipped before
\* self._is_question_text is evaluated; any other fragment evaluates it.
_fallback_answer_extraction(fragments) ==
    IF \A k \in 1..Len(fragments) : Len(_clean_text(fragments[k].text)) > FALLBACK_MAX_LEN
    THEN Return(<<>>)
    ELSE IF "_is_question_text" \notin TemplateBuilderMethods
    THEN Raise("AttributeError")
    ELSE Return(<<>>)

\* The second pass: its loop body starts by evaluating self._is_question_text,
\* which raises AttributeError on the first fragment; with no fragment the
\* loop body never runs and the template stays empty.
SecondPass(fragments, current_section) ==
    IF fragments = <<>> THEN Return(<<>>)
    ELSE IF "_is_question_text" \notin TemplateBuilderMethods
    THEN Raise("AttributeError")
    ELSE Return(<<>>)

extract_template_from_ocr(ocr_result) ==
    LET fragments == Fragments(ocr_result)
        current_section == FirstPass(fragments)
        second == SecondPass(fragments, current_section)
    IN IF Raised(second) THEN second
       ELSE IF Len(second.value) < MIN_TEMPLATE_SIZE
       THEN _fallback_answer_extraction(fragments)
       ELSE second

----------------------------------------------------------------------------
(* The inputs the specifications draw from.                                *)

\* The longest text drawn exhaustively for grade_answer.
MaxLen == 3

\* The most fragments of one OCR result.
MaxFrags == 3

RECURSIVE TextsOfLen(_, _)
TextsOfLen(alphabet, n) ==
    IF n = 0 THEN {<<>>}
    ELSE {Append(t, c) : t \in TextsOfLen(alphabet, n - 1), c \in alphabet}

TextsUpTo(alphabet, n) == UNION {TextsOfLen(alphabet, k) : k \in 0..n}

AnswerAlphabet == {"7", "8", ".", "x", "=", " "}

\* The texts the specification and its scenarios name.
NamedTexts ==
    {<<"A", "n", "s", "w", "e", "r", ":", " ", "7", ".", "0", "5">>,
     <<"x", " ", "=", " ", "7", ".", "9">>,
     <<"X", "=", "8">>,
     <<"a", ":", "b", "=", "5", ":", "4">>,
     <<".", "5">>, <<"1", ".", "2", ".", "3">>, <<"7", ".">>, <<".", ".">>,
     <<"7", ".", "0", "5">>, <<"7", ".", "1">>, <<"7", ".", "1", "1">>,
     <<"x", ".", "5">>, <<"x", "=", "7", ".", "9", "8">>}

StudentTexts == TextsUpTo(AnswerAlphabet, MaxLen) \cup NamedTexts

ExpectedTexts ==
    {<<"7">>, <<"x", "=", "8">>, <<"0", ".", "5">>, <<"a", ":", "b", "=", "5", ":", "4">>,
     <<"x">>, <<"7", ".", ".", "8">>, <<"X", " ", "mul_sign", " ", "8">>}

AnswerTypes == {"numeric", "formula", "text", "multiple_choice"}

\* Tolerances 0 and 0.1.
Tolerances == {Dec(0, 0), Dec(1, 1)}

\* 2.0 and 3.0 points, in half points.
PointValues == {4, 6}

ExpectedQuestions ==
    {[question_id |-> "q", question_text |-> <<>>, expected_answer |-> e,
      answer_type |-> t, points |-> p, tolerance |-> tol, partial_credit |-> pc] :
        e \in ExpectedTexts, t \in AnswerTypes, p \in PointValues,
        tol \in Tolerances, pc \in BOOLEAN}

----------------------------------------------------------------------------
(* SpecAnswer: grade_answer applied to one answer and one question.        *)

InitAnswer ==
    /\ template = NoTemplate
    /\ files = {}
    /\ op = "none"
    /\ \E text \in StudentTexts, q \in ExpectedQuestions :
           args = [student_answer |-> StudentAnswer(<<"answer_", 0>>, text, 90,
                                                    <<0, 10, 50, 15>>),
                   expected_question |-> q]
    /\ frame = <<>>
    /\ ret = None

GradeAnswer ==
    /\ op = "none"
    /\ op' = "grade_answer"
    /\ ret' = Return(grade_answer(args.student_answer, args.expected_question))
    /\ UNCHANGED <<template, files, args, frame>>

NextAnswer == GradeAnswer

SpecAnswer == InitAnswer /\ [][NextAnswer]_vars

----------------------------------------------------------------------------
(* Templates.                                                              *)

\* _load_template: the sample answer key, whatever the path.
_load_template(template_path) ==
    DictOf(<<
        Question("1.1", <<"tian", "kong", "(", "1", ")">>, <<"7">>, "numeric", 4),
        Question("1.2", <<"tian", "kong", "(", "2", ")">>, <<"0", ".", "5">>,
                 "numeric", 4),
        Question("1.3", <<"tian", "kong", "(", "3", ")">>,
                 <<"a", ":", "b", "=", "5", ":", "4">>, "formula", 6),
        Question("1.4", <<"tian", "kong", "(", "4", ")">>, <<"2", "4">>, "numeric", 4),
        Question("1.5", <<"tian", "kong", "(", "5", ")">>, <<"4", ":", "5">>,
                 "formula", 6),
        Question("2.1", <<"jie", "bi", "li", "(", "1", ")">>,
                 <<"x", "=", "1", ".", "2">>, "formula", 8),
        Question("2.2", <<"jie", "bi", "li", "(", "2", ")">>,
                 <<"x", "=", "1", "2", "5">>, "numeric", 8),
        Question("2.3", <<"jie", "bi", "li", "(", "3", ")">>, <<"x", "=", "8">>,
                 "numeric", 8),
        Question("2.4", <<"jie", "bi", "li", "(", "4", ")">>, <<"x", "=", "9">>,
                 "numeric", 8),
        Question("3.1", <<"lie", "bi", "li", "(", "1", ")">>,
                 <<"4", "5", ":", "x", "=", "2", "5", ":", "8">>, "formula", 10),
        Question("3.2", <<"lie", "bi", "li", "(", "2", ")">>,
                 <<"4", ".", "5", ":", "0", ".", "2", "=", "x", ":", "0", ".", "5">>,
                 "formula", 10),
        Question("4", <<"ying", "yong", "ti">>, <<"7", ".", "5">>, "numeric", 12),
        Question("5", <<"tuo", "zhan", "ti">>,
                 <<"jia", ":", "9", "6", "dai", ",", "yi", ":", "7", "2", "dai">>,
                 "text", 16)>>)

\* The falsy template paths, None (the default) and "", are both the empty text.
NoPath == <<>>

\* HomeworkGradingSystem(template_path): the template after construction,
\* self._load_template(template_path) if template_path else None.
Constructed(template_path) ==
    IF template_path = NoPath THEN NoTemplate ELSE Loaded(_load_template(template_path))

\* Answer keys a caller may assign to grader.template: of one, three and five
\* questions, and one whose only question is worth no point.
Key1 == DictOf(<<Question("Q1", <<>>, <<"2", "4">>, "numeric", 4)>>)

Key3 ==
    DictOf(<<Question("Q1", <<>>, <<"2", "4">>, "numeric", 4),
             Question("Q2", <<>>, <<"x", "=", "8">>, "formula", 6),
             Question("Q3", <<>>, <<"x", "=", "7", "8">>, "text", 8)>>)

Key5 ==
    DictOf(<<Question("Q1", <<>>, <<"2", "4">>, "numeric", 4),
             Question("Q2", <<>>, <<"x", "=", "8">>, "formula", 6),
             Question("Q3", <<>>, <<"x", "=", "7", "8">>, "text", 8),
             Question("Q4", <<>>, <<"8">>, "numeric", 4),
             Question("Q5", <<>>, <<"2", ":", "4">>, "multiple_choice", 6)>>)

KeyNoPoints == DictOf(<<Question("Q1", <<>>, <<"2", "4">>, "numeric", 0)>>)

AssignedTemplates == {Loaded(<<>>), Loaded(Key1), Loaded(Key3), Loaded(Key5),
                      Loaded(KeyNoPoints)}

GraderTemplates ==
    {Constructed(NoPath), Constructed(<<"k", "e", "y">>)} \cup AssignedTemplates

----------------------------------------------------------------------------
(* OCR results.                                                            *)

\* The fragment texts of the homework specifications: two answers, an answer
\* of one character, a question prompt holding a digit, an answer in noise.
FragmentTexts ==
    {<<"2", "4">>, <<"x", " ", "=", "8">>, <<"7">>, <<"tian", "kong", "1">>,
     <<"?", "2", "4", " ">>}

BoxAt(top) == <<0, top, 50, top + 5>>

\* The fragments of the homework specifications: each text at two heights, and
\* one fragment whose box holds no coordinate.
FragmentKinds ==
    {[text |-> t, box |-> BoxAt(top)] : t \in FragmentTexts, top \in {10, 20}}
    \cup {[text |-> <<"2", "4">>, box |-> <<>>]}

RECURSIVE SeqsOfLen(_, _)
SeqsOfLen(S, n) ==
    IF n = 0 THEN {<<>>}
    ELSE {Append(q, x) : q \in SeqsOfLen(S, n - 1), x \in S}

OcrResultOf(fragments) ==
    [rec_texts |-> [k \in 1..Len(fragments) |-> fragments[k].text],
     rec_scores |-> [k \in 1..Len(fragments) |-> 90],
     rec_boxes |-> [k \in 1..Len(fragments) |-> fragments[k].box]]

OcrResults ==
    {OcrResultOf(fs) : fs \in UNION {SeqsOfLen(FragmentKinds, n) : n \in 0..MaxFrags}}

----------------------------------------------------------------------------
(* SpecHomework: grade_homework applied to one grader and one OCR result.  *)

InitHomework ==
    /\ template \in GraderTemplates
    /\ files = {}
    /\ op = "none"
    /\ \E ocr_result \in OcrResults :
           args = [student_id |-> <<"h", "w", "_", "2">>, ocr_result |-> ocr_result]
    /\ frame = <<>>
    /\ ret = None

GradeHomework ==
    /\ op = "none"
    /\ op' = "grade_homework"
    /\ frame' = GradeLocals(template, args.ocr_result)
    /\ ret' = grade_homework(template, args.student_id, args.ocr_result)
    /\ UNCHANGED <<template, files, args>>

NextHomework == GradeHomework

SpecHomework == InitHomework /\ [][NextHomework]_vars

----------------------------------------------------------------------------
(* Spec: one grader over a directory of OCR results.                       *)

\* str(n) of a file number.
NumberText(n) ==
    CASE n = 1 -> <<"1">> [] n = 2 -> <<"2">> [] n = 3 -> <<"3">>
      [] n = 10 -> <<"1", "0">>

\* hw_<n>_res.json
ResultFileName(n) ==
    <<"h", "w", "_">> \o NumberText(n) \o <<"_", "r", "e", "s", ".", "j", "s", "o", "n">>

\* An OCR result that grades, a file that holds no JSON, and an OCR result with
\* a box without coordinates.
GoodContent ==
    [readable |-> TRUE,
     ocr_result |-> OcrResultOf(<<[text |-> <<"2", "4">>, box |-> BoxAt(10)],
                                  [text |-> <<"x", "=", "8">>, box |-> BoxAt(20)]>>)]

NoJsonContent == [readable |-> FALSE, ocr_result |-> OcrResultOf(<<>>)]

BadBoxContent ==
    [readable |-> TRUE,
     ocr_result |-> OcrResultOf(<<[text |-> <<"2", "4">>, box |-> <<>>]>>)]

\* The most files of a directory.
MaxFiles == 3

\* The numbers of the result files a directory may hold: the teacher's key
\* hw_1 and the students hw_2, hw_3 and hw_10.
FileNumbers == {1, 2, 3, 10}

\* What a result file may hold: the files of hw_2 and hw_3 may fail to load or
\* to grade.
ContentsOf(n) ==
    IF n \in {2, 3} THEN {GoodContent, NoJsonContent, BadBoxContent}
    ELSE {GoodContent}

ResultFile(n, content) ==
    [name |-> ResultFileName(n), readable |-> content.readable,
     ocr_result |-> content.ocr_result]

\* hw_2.json, which the glob does not match
OtherFile ==
    [name |-> <<"h", "w", "_", "2", ".", "j", "s", "o", "n">>,
     readable |-> TRUE, ocr_result |-> GoodContent.ocr_result]

\* A directory: at most MaxFiles files with different names.
Directories ==
    {d \in SUBSET ({ResultFile(n, c) : n \in FileNumbers,
                                        c \in {GoodContent, NoJsonContent, BadBoxContent}}
                   \cup {OtherFile}) :
        /\ Cardinality(d) <= MaxFiles
        /\ \A f, g \in d : f.name = g.name => f = g
        /\ \A f \in d : \A n \in FileNumbers :
               f.name = ResultFileName(n) =>
                   [readable |-> f.readable, ocr_result |-> f.ocr_result] \in ContentsOf(n)}

\* The orders in which glob may yield the files that match.
Listings(directory) ==
    LET matching == {f \in directory : GlobMatches(f.name)}
    IN {l \in SeqsOfLen(matching, Cardinality(matching)) :
           \A i, j \in 1..Len(l) : i # j => l[i] # l[j]}

Init ==
    /\ template \in {Constructed(NoPath), Constructed(<<"k", "e", "y">>)}
    /\ files \in Directories
    /\ op = "none"
    /\ args = <<>>
    /\ frame = <<>>
    /\ ret = None

\* grader.template = template
SetTemplate(t) ==
    /\ template' = t
    /\ UNCHANGED <<files, op, args, frame, ret>>

\* A caller loads one file and grades it: grade_homework(student_id, ocr_result).
GradeLoadedFile(f) ==
    /\ f.readable
    /\ op' = "grade_homework"
    /\ args' = [self_template |-> template, student_id |-> StudentId(f.name),
                ocr_result |-> f.ocr_result]
    /\ frame' = GradeLocals(template, f.ocr_result)
    /\ ret' = grade_homework(template, StudentId(f.name), f.ocr_result)
    /\ UNCHANGED <<template, files>>

\* results = grader.batch_grade(directory)
BatchGrade(listing) ==
    /\ op' = "batch_grade"
    /\ args' = [self_template |-> template]
    /\ frame' = [listing |-> listing, log |-> GradingLog(listing)]
    /\ ret' = Return(batch_grade(template, listing))
    /\ UNCHANGED <<template, files>>

\* report = grader.generate_report(results), on the results of the batch
GenerateReport ==
    /\ op = "batch_grade"
    /\ op' = "generate_report"
    /\ args' = [self_template |-> args.self_template, results |-> ret.value]
    /\ ret' = Return(generate_report(ret.value))
    /\ UNCHANGED <<template, files, frame>>

Next ==
    \/ \E t \in {Loaded(<<>>), Loaded(Key3)} : SetTemplate(t)
    \/ \E f \in files : GradeLoadedFile(f)
    \/ \E listing \in Listings(files) : BatchGrade(listing)
    \/ GenerateReport

Spec == Init /\ [][Next]_vars

----------------------------------------------------------------------------
(* SpecBuilder: extract_template_from_ocr applied to one OCR result.       *)

\* A text one character longer than the fallback looks at.
LongText == [k \in 1..(FALLBACK_MAX_LEN + 1) |-> "7"]

BuilderFragments ==
    {[text |-> t, box |-> BoxAt(10)] :
        t \in {<<"2", "4">>, <<"x", "=", "8">>, <<"ji", "chu", "lian", "xi">>,
               <<"1", ".">>, LongText}}

BuilderOcrResults ==
    {OcrResultOf(fs) : fs \in UNION {SeqsOfLen(BuilderFragments, n) : n \in 0..MaxFrags}}

InitBuilder ==
    /\ template = NoTemplate
    /\ files = {}
    /\ op = "none"
    /\ \E ocr_result \in BuilderOcrResults : args = [ocr_result |-> ocr_result]
    /\ frame = <<>>
    /\ ret = None

ExtractTemplate ==
    /\ op = "none"
    /\ op' = "extract_template_from_ocr"
    /\ frame' = [current_section |-> FirstPass(Fragments(args.ocr_result))]
    /\ ret' = extract_template_from_ocr(args.ocr_result)
    /\ UNCHANGED <<template, files, args>>

NextBuilder == ExtractTemplate

SpecBuilder == InitBuilder /\ [][NextBuilder]_vars

----------------------------------------------------------------------------
(* Claims about grade_answer, checked under SpecAnswer.                    *)

Graded == op = "grade_answer"

StudentText == args.student_answer.extracted_text

ExpectedText == args.expected_question.expected_answer

\* The first maximal run of characters of cls in text (the empty text if none).
FirstRunOf(text, cls) ==
    LET starts == {i \in 1..Len(text) : text[i] \in cls}
    IN IF starts = {} THEN <<>>
       ELSE LET s == SetMin(starts)
                e == SetMax({j \in s..Len(text) : \A k \in s..j : text[k] \in cls})
            IN SubSeq(text, s, e)

\* The decimal a run of digits with at most one dot writes.
DecimalOf(run) ==
    LET dots == {i \in 1..Len(run) : run[i] = "."}
        after == IF dots = {} THEN 0 ELSE Len(run) - SetMin(dots)
    IN Dec(DigitsValue(SelectSeq(run, LAMBDA c : c # ".")), after)

WellFormed(run) ==
    /\ Cardinality({i \in 1..Len(run) : run[i] = "."}) <= 1
    /\ \E i \in 1..Len(run) : run[i] \in Digits

\* C1: for a numeric question and a candidate from which a number is extracted,
\* the answer is correct with full points when the student's value is within the
\* tolerance of the expected value, and earns 0 points, never a half credit,
\* otherwise.
C1_NumericWithinTolerance ==
    (/\ Graded
     /\ args.expected_question.answer_type = "numeric"
     /\ WellFormed(FirstRunOf(StudentText, NumberChars))
     /\ WellFormed(FirstRunOf(ExpectedText, NumberChars)))
    => LET q == args.expected_question
           s == Scaled(DecimalOf(FirstRunOf(StudentText, NumberChars)),
                       DecimalOf(FirstRunOf(ExpectedText, NumberChars)), q.tolerance)
       IN IF s.diff <= s.tol
          THEN ret.value.is_correct /\ ret.value.points_earned = q.points
          ELSE ~ret.value.is_correct /\ ret.value.points_earned = 0

\* A numeric answer off the expected value by less than the tolerance earned the
\* full points, with partial credit allowed.
C1_Witness ==
    /\ Graded
    /\ args.expected_question.answer_type = "numeric"
    /\ args.expected_question.partial_credit
    /\ StudentText = <<"7", ".", "0", "5">>
    /\ ExpectedText = <<"7">>
    /\ args.expected_question.tolerance = Dec(1, 1)
    /\ ret.value.is_correct
    /\ ret.value.points_earned = args.expected_question.points

\* The similarity the formula and the text grader compute.
ClaimSimilarity ==
    IF args.expected_question.answer_type = "formula"
    THEN FormulaSimilarity(args.student_answer, args.expected_question)
    ELSE TextSimilarity(args.student_answer, args.expected_question)

\* C2: a formula or text answer earns the points and is correct at a similarity
\* of 0.8 or more, earns half the points and is not correct from 0.6 up to 0.8
\* when partial credit is on, and earns 0 otherwise; so the points are one of
\* 0, points * 0.5 and points and never decrease as the similarity grows.
C2_SimilarityTiers ==
    (Graded /\ args.expected_question.answer_type \in {"formula", "text"})
    => LET q == args.expected_question
           r == ClaimSimilarity
           full == 10 * r.num >= 8 * r.den
           partial == 10 * r.num >= 6 * r.den /\ ~full
       IN /\ ret.value.points_earned \in {0, HalfOf(q.points), q.points}
          /\ 0 <= HalfOf(q.points) /\ HalfOf(q.points) <= q.points
          /\ full => ret.value.is_correct /\ ret.value.points_earned = q.points
          /\ partial /\ q.partial_credit =>
                 ~ret.value.is_correct /\ ret.value.points_earned = HalfOf(q.points)
          /\ partial /\ ~q.partial_credit =>
                 ~ret.value.is_correct /\ ret.value.points_earned = 0
          /\ ~full /\ ~partial =>
                 ~ret.value.is_correct /\ ret.value.points_earned = 0

\* A text answer in the middle band earned nothing because partial credit is off.
C2_Witness ==
    /\ Graded
    /\ args.expected_question.answer_type = "text"
    /\ ~args.expected_question.partial_credit
    /\ 10 * ClaimSimilarity.num >= 6 * ClaimSimilarity.den
    /\ 10 * ClaimSimilarity.num < 8 * ClaimSimilarity.den
    /\ ret.value.points_earned = 0
    /\ ~ret.value.is_correct

\* The scenario of C9: the formula question "x=8" with partial credit, answered
\* "x = 7.9".
C9_Scenario ==
    /\ Graded
    /\ args.expected_question.answer_type = "formula"
    /\ args.expected_question.partial_credit
    /\ ExpectedText = <<"x", "=", "8">>
    /\ StudentText = <<"x", " ", "=", " ", "7", ".", "9">>

\* C9 as stated: the scenario's inputs normalize to "x=7.9" and "x=8", their
\* similarity is at least 0.6 and below 0.8, and the answer earns half the
\* points without being correct.
C9_AsStated ==
    C9_Scenario
    => LET r == ratio(<<"x", "=", "7", ".", "9">>, <<"x", "=", "8">>)
       IN /\ 10 * r.num >= 6 * r.den
          /\ 10 * r.num < 8 * r.den
          /\ ret.value.points_earned = HalfOf(args.expected_question.points)
          /\ ~ret.value.is_correct

\* C9, amended: the scenario's inputs normalize to "x=7.9" and "x=8", whose
\* similarity is 2 * 2 / 8 = 0.5, below 0.6, so the answer earns 0 points and is
\* not correct.
C9_Amended ==
    C9_Scenario
    => /\ _normalize_formula(StudentText) = <<"x", "=", "7", ".", "9">>
       /\ _normalize_formula(ExpectedText) = <<"x", "=", "8">>
       /\ FormulaSimilarity(args.student_answer, args.expected_question)
              = [num |-> 1, den |-> 2]
       /\ ret.value.points_earned = 0
       /\ ~ret.value.is_correct
       /\ ret.value.feedback
              = <<Feedback("Formula doesn't match (similarity: {})",
                           <<[num |-> 1, den |-> 2]>>)>>

\* The scenario of C9 was graded.
C9_Witness == C9_Scenario /\ ret.value.points_earned = 0

\* The first match of [0-9]+(\.[0-9]+)? in text (the empty text if none).
FirstDecimalRun(text) ==
    LET whole == FirstRunOf(text, Digits)
        s == SetMin({i \in 1..Len(text) : text[i] \in Digits})
        e == s + Len(whole) - 1
    IN IF whole = <<>> THEN <<>>
       ELSE IF e + 2 <= Len(text) /\ text[e + 1] = "." /\ text[e + 2] \in Digits
       THEN whole \o <<".">> \o FirstRunOf(SubSeq(text, e + 2, Len(text)), Digits)
       ELSE whole

\* C10: for a numeric question the student's and the expected value are the
\* first runs matching [0-9]+(\.[0-9]+)? parsed as numbers, and a student text
\* without such a run earns 0 points with the feedback "No numeric answer found".
C10_FirstDecimalRun ==
    (/\ Graded
     /\ args.expected_question.answer_type = "numeric"
     /\ FirstDecimalRun(ExpectedText) # <<>>)
    => LET q == args.expected_question
           s == Scaled(DecimalOf(FirstDecimalRun(StudentText)),
                       DecimalOf(FirstDecimalRun(ExpectedText)), q.tolerance)
       IN IF FirstDecimalRun(StudentText) = <<>>
          THEN /\ ret.value.points_earned = 0
               /\ ret.value.feedback = <<Feedback("No numeric answer found", <<>>)>>
          ELSE IF s.diff <= s.tol
          THEN ret.value.is_correct /\ ret.value.points_earned = q.points
          ELSE ~ret.value.is_correct /\ ret.value.points_earned = 0

----------------------------------------------------------------------------
(* Claims about grade_homework, checked under SpecHomework.                *)

HomeworkGraded == op = "grade_homework" /\ Returned(ret)

PointsOf(template_dict) == [k \in 1..Len(template_dict) |-> template_dict[k].value.points]

\* C3: a returned GradingResult has total_score equal to the sum of the
\* points_earned of its question results and max_score equal to the sum of the
\* template's points; overall_accuracy is total_score / max_score, and 0 when
\* max_score is 0; when every question has points > 0, 0 <= total_score <=
\* max_score.
C3_ScoreBounds ==
    HomeworkGraded
    => LET r == ret.value
           earned == [k \in 1..Len(r.question_results) |->
                         r.question_results[k].points_earned]
           points == PointsOf(template.dict)
       IN /\ r.total_score = SumSeq(earned)
          /\ r.max_score = SumSeq(points)
          /\ r.max_score # 0 =>
                 /\ r.overall_accuracy.den > 0
                 /\ r.overall_accuracy.num * r.max_score
                        = r.total_score * r.overall_accuracy.den
          /\ r.max_score = 0 => r.overall_accuracy.num = 0
          /\ (\A k \in 1..Len(points) : points[k] > 0) =>
                 0 <= r.total_score /\ r.total_score <= r.max_score

\* A homework of several questions earned some but not all of the points.
C3_Witness ==
    /\ HomeworkGraded
    /\ Len(template.dict) > 1
    /\ \A k \in 1..Len(template.dict) : template.dict[k].value.points > 0
    /\ 0 < ret.value.total_score
    /\ ret.value.total_score < ret.value.max_score
    /\ ret.value.question_results[1].points_earned > 0

\* The place of candidate j in the ascending order of the tops, ties in
\* extraction order.
RankByTop(answers, j) ==
    Cardinality({k \in 1..Len(answers) : Top(answers[k]) < Top(answers[j])})
    + Cardinality({k \in 1..j : Top(answers[k]) = Top(answers[j])})

\* C4: the alignment holds min(len(candidates), len(template)) entries, and its
\* i-th entry maps the i-th question id of the template to the i-th candidate in
\* ascending order of the tops; the candidates beyond the template are dropped
\* and the questions beyond the candidates are absent.
C4_PositionalZip ==
    HomeworkGraded
    => LET answers == frame.answers
           aligned == frame.aligned_answers
           n == Min2(Len(answers), Len(template.dict))
       IN /\ Len(aligned) = n
          /\ \A i \in 1..n :
                 /\ aligned[i].key = template.dict[i].key
                 /\ \E j \in 1..Len(answers) :
                        RankByTop(answers, j) = i /\ aligned[i].value = answers[j]
          /\ \A i \in 1..Len(template.dict) :
                 HasKey(aligned, template.dict[i].key) <=> i <= n

\* More candidates than questions, extracted in another order than their tops:
\* the only question got the topmost candidate, which was extracted second.
C4_Witness ==
    /\ HomeworkGraded
    /\ Len(frame.answers) > Len(template.dict)
    /\ Top(frame.answers[2]) < Top(frame.answers[1])
    /\ frame.aligned_answers[1].value = frame.answers[2]
    /\ frame.aligned_answers[1].value # frame.answers[1]

\* The results of the questions without a candidate.
Sentinels(question_results) ==
    {k \in 1..Len(question_results) :
        /\ question_results[k].student_answer = NoAnswerFound
        /\ question_results[k].points_earned = 0
        /\ ~question_results[k].is_correct
        /\ question_results[k].feedback = <<Feedback("No answer detected", <<>>)>>}

\* C5: grade_homework returns one question result per template question, in the
\* template's order; the questions without an aligned candidate, and only they,
\* get the "No answer found" result, and there are len(template) -
\* min(number of candidates, len(template)) of them.
C5_OneResultPerQuestion ==
    HomeworkGraded
    => LET results == ret.value.question_results
           n == Min2(Len(frame.answers), Len(template.dict))
       IN /\ Len(results) = Len(template.dict)
          /\ \A k \in 1..Len(results) :
                 /\ results[k].question_id = template.dict[k].key
                 /\ results[k].max_points = template.dict[k].value.points
                 /\ k \in Sentinels(results) <=> k > n
          /\ Cardinality(Sentinels(results)) = Len(template.dict) - n

\* Five questions and three candidates gave exactly two "No answer found".
C5_Witness ==
    /\ HomeworkGraded
    /\ Len(template.dict) = 5
    /\ Len(frame.answers) = 3
    /\ Len(ret.value.question_results) = 5
    /\ Sentinels(ret.value.question_results) = {4, 5}

----------------------------------------------------------------------------
(* Claims about grading without a template and about a batch, checked      *)
(* under Spec, and about template extraction, checked under SpecBuilder.   *)

\* The files of a listing that batch_grade is to grade: every result file but
\* the teacher's key hw_1_res.json.
StudentFiles(listing) ==
    SelectSeq(listing, LAMBDA f : f.name # ResultFileName(1))

\* The files batch_grade hands to load_ocr_result and grade_homework.
AttemptedFiles(listing) ==
    SelectSeq(listing, LAMBDA f : ~IsAnswerKeyName(f.name))

\* C6: grading attempted while no template is loaded surfaces the configuration
\* error to the caller, through grade_homework and through batch_grade alike.
C6_ConfigurationErrorSurfaced ==
    (/\ op \in {"grade_homework", "batch_grade"}
     /\ args.self_template.is_none
     /\ op = "batch_grade" =>
            \E i \in 1..Len(AttemptedFiles(frame.listing)) :
                AttemptedFiles(frame.listing)[i].readable)
    => Raised(ret) /\ ret.exc = "ValueError"

\* C7: extract_template_from_ocr returns a template, possibly small or empty,
\* for every sequence of fragments; it never raises.
C7_ExtractionNeverRaises ==
    op = "extract_template_from_ocr" => Returned(ret)

\* Whether grading the file on its own succeeds with the batch's template.
GradesAlone(self_template, f) ==
    /\ f.readable
    /\ Returned(grade_homework(self_template, StudentId(f.name), f.ocr_result))

\* C8: in a batch in which a student's file fails to load or to grade, the
\* results hold exactly the students whose files grade, each once and none for
\* a failed student, and the report built from them counts and lists exactly
\* these students.
C8_BatchIsolatesFailures ==
    (/\ op \in {"batch_grade", "generate_report"}
     /\ \E i \in 1..Len(StudentFiles(frame.listing)) :
            ~GradesAlone(args.self_template, StudentFiles(frame.listing)[i]))
    => LET results == IF op = "batch_grade" THEN ret.value ELSE args.results
           graded == SelectSeq(StudentFiles(frame.listing),
                               LAMBDA f : GradesAlone(args.self_template, f))
       IN /\ Len(results) = Len(graded)
          /\ \A i \in 1..Len(graded) :
                 results[i].student_id = StudentId(graded[i].name)
          /\ op = "generate_report" =>
                 /\ ret.value.summary.total_students = Len(graded)
                 /\ Len(ret.value.student_results) = Len(graded)
                 /\ \A i \in 1..Len(graded) :
                        ret.value.student_results[i].student_id
                            = StudentId(graded[i].name)

----------------------------------------------------------------------------
(* SpecFilter: extract_answers_from_ocr applied to one OCR result.         *)

\* Fragment texts around every test of the filter: pure numbers and symbols,
\* short and long; letters with digits of 10 and of 11 characters; markers next
\* to digits and symbols; texts the cleaning shortens; digits between blanks.
FilterTexts ==
    {<<"2", "4">>,
     <<"x", "=", "1", ".", "2">>,
     <<"7">>,
     <<"=", "=">>,
     <<"a", "b">>,
     <<"tian", "kong", "2", "4">>,
     <<"(", "1", ")", "tuo", "zhan", "ti">>,
     <<"1", "+", "2", "+", "3", "+", "4", "+", "5", "=", "1", "5">>,
     <<"x", "=", "1", "+", "2", "+", "3", "+", "4", "5">>,
     <<"x", "=", "1", "+", "2", "+", "3", "+", "4", "+", "5">>,
     <<"1", " ", "2", " ", "3", " ", "4", " ", "5", " ", "6">>,
     <<"?", "7">>,
     <<"?", "2", "4", " ">>}

FilterOcrResults ==
    {OcrResultOf(fs) :
        fs \in UNION {SeqsOfLen({[text |-> t, box |-> BoxAt(10)] : t \in FilterTexts}, n) :
                         n \in 0..MaxFrags}}

InitFilter ==
    /\ template = NoTemplate
    /\ files = {}
    /\ op = "none"
    /\ \E ocr_result \in FilterOcrResults : args = [ocr_result |-> ocr_result]
    /\ frame = <<>>
    /\ ret = None

ExtractAnswers ==
    /\ op = "none"
    /\ op' = "extract_answers_from_ocr"
    /\ ret' = Return(extract_answers_from_ocr(args.ocr_result))
    /\ UNCHANGED <<template, files, args, frame>>

NextFilter == ExtractAnswers

SpecFilter == InitFilter /\ [][NextFilter]_vars

----------------------------------------------------------------------------
(* Claims about the candidate filter, checked under SpecFilter.            *)

Filtered == op = "extract_answers_from_ocr"

HasMarker(text) ==
    \E marker \in question_indicators :
        \E i \in 0..(Len(text) - Len(marker)) :
            \A k \in 1..Len(marker) : text[i + k] = marker[k]

\* C11: no candidate the filter returns has a cleaned text that contains a
\* question marker, whatever digits and symbols the text holds.
C11_NoMarkerCandidate ==
    Filtered => \A k \in 1..Len(ret.value) : ~HasMarker(ret.value[k].extracted_text)

\* A fragment with a marker next to digits was offered, and the filter returned
\* other candidates.
C11_Witness ==
    /\ Filtered
    /\ \E i \in 1..Len(args.ocr_result.rec_texts) :
           /\ HasMarker(_clean_text(args.ocr_result.rec_texts[i]))
           /\ \E k \in 1..Len(args.ocr_result.rec_texts[i]) :
                  args.ocr_result.rec_texts[i][k] \in Digits
    /\ ret.value # <<>>
    /\ \A k \in 1..Len(ret.value) : ~HasMarker(ret.value[k].extracted_text)

\* The acceptance rule of C12 for a cleaned text.
Accepted(cleaned) ==
    /\ Len(cleaned) >= 2
    /\ ~HasMarker(cleaned)
    /\ \/ \A k \in 1..Len(cleaned) : cleaned[k] \in Digits \cup AnswerSymbols
       \/ Len(cleaned) <= 10 /\ \E k \in 1..Len(cleaned) : cleaned[k] \in Digits

\* The positions of the fragments C12 accepts.
AcceptedPositions(rec_texts) ==
    {i \in 1..Len(rec_texts) : Accepted(_clean_text(rec_texts[i]))}

\* C12: the filter returns, in fragment order, exactly the fragments whose
\* cleaned text has at least 2 characters, holds no question marker, and either
\* consists of digits and the symbols . - + = : / ( ) [ ] { } only or has at
\* most 10 characters and a digit among them.
C12_ExactFilter ==
    Filtered
    => LET rec_texts == args.ocr_result.rec_texts
           positions == AcceptedPositions(rec_texts)
       IN /\ Len(ret.value) = Cardinality(positions)
          /\ \A i \in positions :
                 LET k == Cardinality({j \in positions : j <= i})
                 IN /\ ret.value[k].extracted_text = _clean_text(rec_texts[i])
                    /\ ret.value[k].question_id = <<"answer_", i - 1>>
                    /\ ret.value[k].bounding_box = args.ocr_result.rec_boxes[i]

\* Two candidates were returned in fragment order around a rejected fragment,
\* the second one longer than 10 characters.
C12_Witness ==
    /\ Filtered
    /\ Len(args.ocr_result.rec_texts) = 3
    /\ Len(ret.value) = 2
    /\ ret.value[1].question_id = <<"answer_", 0>>
    /\ ret.value[2].question_id = <<"answer_", 2>>
    /\ Len(ret.value[2].extracted_text) > 10
    /\ Len(_clean_text(args.ocr_result.rec_texts[2])) > 10

----------------------------------------------------------------------------
(* SpecRepeat: one grader grading the loaded papers of two students again  *)
(* and again, in any order; frame.calls records every call.                *)

\* The most calls of grade_homework in a run.
MaxCalls == 3

\* What the papers hold.
PaperContents ==
    {GoodContent, BadBoxContent,
     [readable |-> TRUE, ocr_result |-> OcrResultOf(<<>>)],
     [readable |-> TRUE,
      ocr_result |-> OcrResultOf(<<[text |-> <<"x", "=", "8">>, box |-> BoxAt(20)],
                                   [text |-> <<"7", ".", "0", "5">>, box |-> BoxAt(10)]>>)],
     [readable |-> TRUE,
      ocr_result |-> OcrResultOf(<<[text |-> <<"0", ".", "5">>, box |-> BoxAt(10)]>>)]}

InitRepeat ==
    /\ template \in {NoTemplate, Constructed(<<"k", "e", "y">>), Loaded(Key1), Loaded(Key3)}
    /\ \E c2, c3 \in PaperContents : files = {ResultFile(2, c2), ResultFile(3, c3)}
    /\ op = "none"
    /\ args = <<>>
    /\ frame = [calls |-> <<>>]
    /\ ret = None

\* result = grader.grade_homework(student_id, ocr_result), on a loaded paper
GradePaper(f) ==
    /\ Len(frame.calls) < MaxCalls
    /\ op' = "grade_homework"
    /\ args' = [student_id |-> StudentId(f.name), ocr_result |-> f.ocr_result]
    /\ ret' = grade_homework(template, StudentId(f.name), f.ocr_result)
    /\ UNCHANGED <<template, files>>
    /\ frame' = [calls |-> Append(frame.calls,
                                  [student_id |-> StudentId(f.name),
                                   ocr_result |-> f.ocr_result,
                                   template_before |-> template,
                                   template_after |-> template',
                                   files_before |-> files,
                                   files_after |-> files',
                                   result |-> ret'])]

NextRepeat == \E f \in files : GradePaper(f)

SpecRepeat == InitRepeat /\ [][NextRepeat]_vars

\* What a call hands back of its question results (none when it raised).
QuestionResultsOf(r) == IF Returned(r) THEN r.value.question_results ELSE r

----------------------------------------------------------------------------
(* Claims about templates of no questions and about the files a batch      *)
(* grades, checked under Spec.                                             *)

\* C14: grading against a template that is loaded but holds no question is no
\* error: grade_homework returns a GradingResult with no question results and
\* total_score, max_score and overall_accuracy 0.
C14_EmptyTemplateGrades ==
    (/\ op = "grade_homework"
     /\ ~args.self_template.is_none
     /\ args.self_template.dict = <<>>
     /\ \A i \in 1..Len(args.ocr_result.rec_boxes) :
            Len(args.ocr_result.rec_boxes[i]) >= 2)
    => /\ Returned(ret)
       /\ ret.value.question_results = <<>>
       /\ ret.value.total_score = 0
       /\ ret.value.max_score = 0
       /\ ret.value.overall_accuracy.num = 0

\* C18: batch_grade attempts every file hw_<N>_res.json of the directory but
\* the teacher's key hw_1_res.json: the student of every other file is logged
\* as being graded.
C18_EveryStudentAttempted ==
    op = "batch_grade"
    => \A i \in 1..Len(frame.listing) :
           frame.listing[i].name # ResultFileName(1)
           => \E k \in 1..Len(frame.log) : frame.log[k] = StudentId(frame.listing[i].name)

----------------------------------------------------------------------------
(* SpecTemplate: a template is saved with TemplateBuilder.save_template    *)
(* and a grader is constructed with the path of the file.                  *)

\* template_data of save_template: for every question id the dict of the seven
\* fields, which json.dump writes to the file.
save_template(template_dict) ==
    [k \in 1..Len(template_dict) |->
        Item(template_dict[k].key,
             [question_id |-> template_dict[k].value.question_id,
              question_text |-> template_dict[k].value.question_text,
              expected_answer |-> template_dict[k].value.expected_answer,
              answer_type |-> template_dict[k].value.answer_type,
              points |-> template_dict[k].value.points,
              tolerance |-> template_dict[k].value.tolerance,
              partial_credit |-> template_dict[k].value.partial_credit])]

\* The most questions of a saved template.
MaxQuestions == 2

\* Questions as the builder names them: Q<n>, "Question <n>".
BuilderQuestion(n, expected_answer, answer_type, points) ==
    Question(<<"Q", n>>, <<"Question", n>>, expected_answer, answer_type, points)

SavedQuestions(n) ==
    {BuilderQuestion(n, <<"2", "4">>, "numeric", points) : points \in {4, 6, 8, 12}}
    \cup {BuilderQuestion(n, <<"x", "=", "8">>, "formula", points) : points \in {4, 6, 8, 12}}

RECURSIVE TemplatesOfLen(_)
TemplatesOfLen(n) ==
    IF n = 0 THEN {<<>>}
    ELSE {Append(t, Item(q.question_id, q)) :
             t \in TemplatesOfLen(n - 1), q \in SavedQuestions(n)}

\* The templates to save: built ones of up to MaxQuestions questions, and the
\* sample template itself.
SavedTemplates ==
    UNION {TemplatesOfLen(n) : n \in 0..MaxQuestions}
    \cup {_load_template(<<"k", "e", "y">>)}

TemplatePaths == {<<"k", "e", "y">>, <<"t", ".", "j", "s", "o", "n">>}

InitTemplate ==
    /\ template = NoTemplate
    /\ files = {}
    /\ op = "none"
    /\ \E t \in SavedTemplates, p \in TemplatePaths :
           args = [template |-> t, output_path |-> p]
    /\ frame = <<>>
    /\ ret = None

\* builder.save_template(template, output_path)
SaveTemplate ==
    /\ op = "none"
    /\ op' = "save_template"
    /\ files' = {[name |-> args.output_path, data |-> save_template(args.template)]}
    /\ frame' = [template |-> args.template, output_path |-> args.output_path]
    /\ ret' = Return(None)
    /\ UNCHANGED <<template, args>>

\* grader = HomeworkGradingSystem(template_path), with the path of a file
ConstructGrader ==
    /\ op = "save_template"
    /\ op' = "__init__"
    /\ \E f \in files :
           /\ args' = [template_path |-> f.name]
           /\ template' = Constructed(f.name)
    /\ ret' = Return(None)
    /\ UNCHANGED <<files, frame>>

NextTemplate == SaveTemplate \/ ConstructGrader

SpecTemplate == InitTemplate /\ [][NextTemplate]_vars

\* C15: a grader constructed with the path of a saved template holds the saved
\* template: the same question ids in the same order and, for each, the same
\* question_text, expected_answer, answer_type, points, tolerance and
\* partial_credit.
C15_TemplateRoundTrips ==
    (op = "__init__" /\ args.template_path = frame.output_path)
    => /\ ~template.is_none
       /\ Len(template.dict) = Len(frame.template)
       /\ \A k \in 1..Len(frame.template) :
              /\ template.dict[k].key = frame.template[k].key
              /\ template.dict[k].value.question_text
                     = frame.template[k].value.question_text
              /\ template.dict[k].value.expected_answer
                     = frame.template[k].value.expected_answer
              /\ template.dict[k].value.answer_type = frame.template[k].value.answer_type
              /\ template.dict[k].value.points = frame.template[k].value.points
              /\ template.dict[k].value.tolerance = frame.template[k].value.tolerance
              /\ template.dict[k].value.partial_credit
                     = frame.template[k].value.partial_credit

----------------------------------------------------------------------------
(* SpecPerfect: grade_homework on a paper that holds the expected answers  *)
(* of the grader's template, one fragment per question from top to bottom. *)

\* The highest top of the first fragment and the widest gap between two
\* fragments.
MaxStart == 4

MaxGap == 5

\* The fragments of the perfect paper in template order.
PerfectFragments(template_dict, start, gap) ==
    [k \in 1..Len(template_dict) |->
        [text |-> template_dict[k].value.expected_answer,
         box |-> BoxAt(start + gap * (k - 1))]]

Reversed(s) == [k \in 1..Len(s) |-> s[Len(s) + 1 - k]]

\* The OCR results of the perfect paper: the fragments listed from the top down
\* or from the bottom up.
PerfectPapers(template_dict) ==
    {OcrResultOf(fs) :
        fs \in UNION {{PerfectFragments(template_dict, start, gap),
                       Reversed(PerfectFragments(template_dict, start, gap))} :
                         start \in 0..MaxStart, gap \in 1..MaxGap}}

InitPerfect ==
    /\ template \in {Constructed(<<"k", "e", "y">>), Loaded(Key1), Loaded(Key3),
                     Loaded(Key5)}
    /\ files = {}
    /\ op = "none"
    /\ \E ocr_result \in PerfectPapers(template.dict) :
           args = [student_id |-> <<"h", "w", "_", "2">>, ocr_result |-> ocr_result]
    /\ frame = <<>>
    /\ ret = None

NextPerfect == GradeHomework

SpecPerfect == InitPerfect /\ [][NextPerfect]_vars

\* C17: a paper made of the expected answers of the default template, one
\* fragment per question with tops increasing in template order, has every
\* question marked correct and total_score equal to max_score.
C17_PerfectPaperFullMarks ==
    (op = "grade_homework" /\ template = Constructed(<<"k", "e", "y">>))
    => /\ Returned(ret)
       /\ \A k \in 1..Len(ret.value.question_results) :
              ret.value.question_results[k].is_correct
       /\ ret.value.total_score = ret.value.max_score

----------------------------------------------------------------------------
(* SpecDemo: demo_complete_workflow over the directory "output": build the *)
(* template from the teacher's key, initialize the grader, grade every     *)
(* student file, report.  frame holds the locals template, student_files   *)
(* and results, and graded counts the passes of the grading loop.  The     *)
(* file teacher_template.json is written outside the directory.            *)

EmptyOcrContent == [readable |-> TRUE, ocr_result |-> OcrResultOf(<<>>)]

\* What the directory of the demo may hold: the teacher's key hw_1 (absent, with
\* fragments, with no fragment or without JSON) and at most MaxFiles student
\* files.
DemoDirectories ==
    {keys_ \cup students :
        keys_ \in {{}} \cup {{ResultFile(1, c)} :
                                c \in {GoodContent, EmptyOcrContent, NoJsonContent}},
        students \in {d \in SUBSET (UNION {{ResultFile(n, c) : c \in ContentsOf(n)} :
                                              n \in FileNumbers \ {1}}) :
                         /\ Cardinality(d) <= MaxFiles
                         /\ \A f, g \in d : f.name = g.name => f = g}}

InitDemo ==
    /\ template = NoTemplate
    /\ files \in DemoDirectories
    /\ op = "none"
    /\ args = <<>>
    /\ frame = <<>>
    /\ ret = None

\* Step 1: open output/hw_1_res.json, extract and save the template; on any
\* exception, template = None.
BuildTemplate(directory) ==
    LET teacher == {f \in directory : f.name = ResultFileName(1)}
    IN IF teacher = {} THEN Raise("FileNotFoundError")
       ELSE LET loaded == load_ocr_result(CHOOSE f \in teacher : TRUE)
            IN IF Raised(loaded) THEN loaded
               ELSE extract_template_from_ocr(loaded.value)

DemoBuildTemplate ==
    /\ op = "none"
    /\ op' = "build_template"
    /\ ret' = BuildTemplate(files)
    /\ frame' = [template |-> IF Returned(ret') THEN Loaded(ret'.value) ELSE NoTemplate]
    /\ UNCHANGED <<template, files, args>>

\* Step 2: grader = HomeworkGradingSystem(); if template: grader.template = template
DemoInitGrader ==
    /\ op = "build_template"
    /\ op' = "init_grader"
    /\ template' = IF ~NotTemplate(frame.template) THEN frame.template
                   ELSE Constructed(NoPath)
    /\ UNCHANGED <<files, args, frame, ret>>

\* Step 3: the files hw_*_res.json whose name does not contain "hw_1".
DemoListStudents ==
    /\ op = "init_grader"
    /\ op' = "list_students"
    /\ \E listing \in Listings(files) :
           frame' = [template |-> frame.template,
                     student_files |-> SelectSeq(listing,
                                                 LAMBDA f : ~IsAnswerKeyName(f.name)),
                     graded |-> 0,
                     results |-> <<>>]
    /\ UNCHANGED <<template, files, args, ret>>

\* Step 4, one pass of the loop: load the file and grade it; an exception is
\* printed and the loop goes on.
DemoGradeStudent ==
    /\ op \in {"list_students", "grade_student"}
    /\ frame.graded < Len(frame.student_files)
    /\ op' = "grade_student"
    /\ LET json_file == frame.student_files[frame.graded + 1]
           loaded == load_ocr_result(json_file)
           result == IF Raised(loaded) THEN loaded
                     ELSE grade_homework(template, StudentId(json_file.name),
                                         loaded.value)
       IN /\ args' = [student_id |-> StudentId(json_file.name)]
          /\ ret' = result
          /\ frame' = [frame EXCEPT
                          !.graded = @ + 1,
                          !.results = IF Returned(result) THEN Append(@, result.value)
                                      ELSE @]
    /\ UNCHANGED <<template, files>>

\* Step 5: report = grader.generate_report(results, ...)
DemoReport ==
    /\ op \in {"list_students", "grade_student"}
    /\ frame.graded = Len(frame.student_files)
    /\ op' = "generate_report"
    /\ args' = [results |-> frame.results]
    /\ ret' = Return(generate_report(frame.results))
    /\ UNCHANGED <<template, files, frame>>

NextDemo ==
    \/ DemoBuildTemplate
    \/ DemoInitGrader
    \/ DemoListStudents
    \/ DemoGradeStudent
    \/ DemoReport

SpecDemo == InitDemo /\ [][NextDemo]_vars

\* C19: when building the template fails or yields an empty template, the demo
\* grades with the default template: the grader holds a non-empty template
\* when a loaded student file is graded, and the report holds a result for
\* every readable student file.
C19_DemoUsesDefaultTemplate ==
    /\ (/\ op = "grade_student"
        /\ NotTemplate(frame.template)
        /\ frame.student_files[frame.graded].readable)
       => ~NotTemplate(template)
    /\ (op = "generate_report" /\ NotTemplate(frame.template))
       => \A i \in 1..Len(frame.student_files) :
              frame.student_files[i].readable
              => \E k \in 1..Len(ret.value.student_results) :
                     ret.value.student_results[k].student_id
                         = StudentId(frame.student_files[i].name)

----------------------------------------------------------------------------
(* SpecPoints: _estimate_points applied to a value of the section cursor   *)
(* and a question index, as extract_template_from_ocr calls it.            *)

\* The highest fragment index.
MaxIndex == 15

\* str(i) of a natural number.
RECURSIVE str(_)
str(i) ==
    LET digit == CHOOSE c \in Digits : DigitVal(c) = i % 10
    IN IF i < 10 THEN <<digit>> ELSE Append(str(i \div 10), digit)

\* Fragments with and without a section header.
HeaderFragments ==
    {[text |-> t, box |-> BoxAt(10)] :
        t \in {<<"2", "4">>,
               <<"ji", "chu", "lian", "xi">>,
               <<"2", ".", "ti2", "gao", "lian", "xi">>,
               <<"tuo", "zhan", "lian", "xi", ":">>}}

\* The values the first pass leaves in current_section: None (the empty text)
\* and the three section names.
CursorValues ==
    {FirstPass(Fragments(OcrResultOf(fs))) :
        fs \in UNION {SeqsOfLen(HeaderFragments, n) : n \in 0..2}}

InitPoints ==
    /\ template = NoTemplate
    /\ files = {}
    /\ op = "none"
    /\ \E section \in CursorValues, i \in 0..MaxIndex :
           args = [section |-> section, question |-> str(i)]
    /\ frame = <<>>
    /\ ret = None

\* points = self._estimate_points(current_section, str(i))
EstimatePoints ==
    /\ op = "none"
    /\ op' = "_estimate_points"
    /\ ret' = Return(_estimate_points(args.section, args.question))
    /\ UNCHANGED <<template, files, args, frame>>

NextPoints == EstimatePoints

SpecPoints == InitPoints /\ [][NextPoints]_vars

====
